---- MODULE Spec2Model ----
(***************************************************************************)
(* Model of the video queue controller (AppComponent) and of the           *)
(* configuration gate of GeminiService.                                     *)
(*                                                                         *)
(* The component runs on a single-threaded event loop.  Every public       *)
(* method is one task; processQueue is an async function, so it is a       *)
(* coroutine that is suspended at its two awaits (frame extraction and     *)
(* inference) and runs synchronously in between.  The constructor's        *)
(* effect is a callback which the framework schedules whenever a signal    *)
(* it read in its last run changes.                                         *)
(*                                                                         *)
(* Modelling decisions:                                                    *)
(*  - procs holds the executions of processQueue.  pc = "while" is the     *)
(*    synchronous code at the loop head (no other task runs meanwhile,     *)
(*    see Busy); "extract" and "infer" are the two awaits of lines 103     *)
(*    and 104; "idle" is a free slot.                                       *)
(*  - the effect runs as a task of its own once it is dirty.  It is dirty  *)
(*    after a write that changes a signal read in its last run; the reads  *)
(*    of the synchronous part of processQueue, which is entered from       *)
(*    inside the effect, count.  Signal writes inside the effect are       *)
(*    taken to be allowed, as the program would otherwise process nothing. *)
(*  - Spec lets the public methods be called in any order; SpecUI calls    *)
(*    pause, resume, stop, retry and clear only while the computed signal  *)
(*    canPause, canResume, canStop, canRetry, canClear is true.            *)
(*  - onFileSelected with input.files = null returns at once and is left   *)
(*    out; ids are 1, 2, ... in the order of creation (randomUUID is       *)
(*    unique); a file is its media type.                                    *)
(*  - extractor is one call of extractFrames(file, frameCount) against a   *)
(*    media element: the element completes the seek it was asked for and  *)
(*    then fires seeked, or fails and fires error.  Durations are finite   *)
(*    whole numbers of time units and media times are exact fractions      *)
(*    <<numerator, denominator>> in lowest terms.  SpecExtract runs one    *)
(*    call for every frameCount, duration and availability of the canvas   *)
(*    context; in the specifications of the controller the per-item step   *)
(*    only sees whether the call resolved or rejected.                     *)
(*  - lastRequest, owed, kept and late are history variables: no other    *)
(*    variable depends on them.                                             *)
(***************************************************************************)
EXTENDS Integers, Sequences, FiniteSets, TLC

\* ---------------------------------------------------------------- bounds
MaxItems == 2      \* number of work items (ids) ever created
MaxFiles == 2      \* number of files in one submission
MaxProcs == 2      \* slots for concurrently active executions of processQueue
MaxFrames == 8     \* frameCount of a call of extractFrames (processQueue passes 8)
MaxDuration == 4   \* duration of a media resource, in time units

\* ------------------------------------------------------------ value sets
NULL == "null"
Ids == 1..MaxItems
Procs == 1..MaxProcs
FileTypes == {"video", "other"}

\* the answers of the inference client ({title, keywords})
Metadata == { [title |-> "T", keywords |-> <<"a", "b">>] }

\* the messages of the failures of the per-item step
ExtractErrors == {"Failed to load video file."}
InferErrors == {"Failed to generate metadata from Gemini API."}

VARIABLES
  videos,               \* signal: the queue, a sequence of VideoMetadata
  isProcessing,         \* signal
  isPaused,             \* signal
  currentIndex,         \* signal: the cursor
  apiKeyMissing,        \* signal, set once at construction
  processQueueRunning,  \* the private reentrancy flag
  procs,                \* the executions of processQueue: slot -> [pc, video]
  effectDirty,          \* the effect is scheduled to run
  deps,                 \* the signals the effect read in its last run
  inEffect,             \* slot whose synchronous part runs inside the effect, or 0
  thumbs,               \* ids whose generateThumbnail is in flight
  nextId,               \* number of ids handed out so far
  lastRequest,          \* history: the last request of the user
  owed,                 \* history: ids that were failed at the last retry request and
                        \*   have not been set to processing since (emptied by a
                        \*   later pause, stop or clear)
  kept,                 \* history: ids that were completed at the last retry request
  late,                 \* history: ids submitted while processQueue was active and not
                        \*   visited since (emptied by a later stop or clear)
  extractor             \* one call of extractFrames: its position, the media element
                        \*   and the frames captured so far

vars == <<videos, isProcessing, isPaused, currentIndex, apiKeyMissing,
          processQueueRunning, procs, effectDirty, deps, inEffect, thumbs, nextId,
          lastRequest, owed, kept, late, extractor>>

\* the variables of the component
component == <<videos, isProcessing, isPaused, currentIndex, apiKeyMissing,
               processQueueRunning, procs, effectDirty, deps, inEffect, thumbs, nextId,
               lastRequest, owed, kept, late>>

\* ------------------------------------------------------------ media times
RECURSIVE GCD(_, _)
GCD(a, b) == IF b = 0 THEN a ELSE GCD(b, a % b)

\* the fraction n / d in lowest terms
Frac(n, d) == LET g == GCD(n, d) IN <<n \div g, d \div g>>

\* const interval = duration / (frameCount + 1)
interval(duration, frameCount) == Frac(duration, frameCount + 1)

\* variant: the loop counts from 0, the first seek is at time 0
seekTimeFromZero(duration, frameCount, i) ==
  LET iv == interval(duration, frameCount) IN Frac(iv[1] * (i - 1), iv[2])

\* interval * i
seekTime(duration, frameCount, i) ==
  LET iv == interval(duration, frameCount) IN Frac(iv[1] * i, iv[2])

\* canvas.toDataURL of the picture the element shows at media time t
Frame(t) == [at |-> t]

\* a call of extractFrames(file, frameCount) on a file of the given duration
Extraction(pc, frameCount, duration, context) ==
  [pc |-> pc, frameCount |-> frameCount, duration |-> duration, context |-> context,
   i |-> 0, seeks |-> <<>>, seeking |-> <<>>, position |-> <<0, 1>>,
   frames |-> <<>>, result |-> <<>>, error |-> NULL]

NotCalled == Extraction("none", 0, 0, TRUE)

\* ------------------------------------------------------- pure operators
NewVideo(id) ==
  [id |-> id, thumbnail |-> NULL, status |-> "pending", title |-> "",
   keywords |-> <<>>, errorMessage |-> NULL]

\* variant: the status is written to every item of the queue
updateVideoStatusAll(vs, id, status) ==
  [i \in DOMAIN vs |-> [vs[i] EXCEPT !.status = status, !.errorMessage = NULL]]

\* variant: the status is written and the error message is kept
updateVideoStatusKeepsError(vs, id, status) ==
  [i \in DOMAIN vs |->
     IF vs[i].id = id THEN [vs[i] EXCEPT !.status = status] ELSE vs[i]]

updateVideoStatus(vs, id, status) ==
  [i \in DOMAIN vs |->
     IF vs[i].id = id THEN [vs[i] EXCEPT !.status = status, !.errorMessage = NULL]
     ELSE vs[i]]

\* variant: the result is written without the status
updateVideoResultKeepsStatus(vs, id, status, title, keywords, error) ==
  [i \in DOMAIN vs |->
     IF vs[i].id = id
     THEN [vs[i] EXCEPT !.title = title, !.keywords = keywords, !.errorMessage = error]
     ELSE vs[i]]

updateVideoResult(vs, id, status, title, keywords, error) ==
  [i \in DOMAIN vs |->
     IF vs[i].id = id
     THEN [vs[i] EXCEPT !.status = status, !.title = title,
                        !.keywords = keywords, !.errorMessage = error]
     ELSE vs[i]]

\* variant: the thumbnail is written onto the record captured at submission
setThumbnailStale(vs, id, frame) ==
  [i \in DOMAIN vs |->
     IF vs[i].id = id THEN [NewVideo(id) EXCEPT !.thumbnail = frame] ELSE vs[i]]

setThumbnail(vs, id, frame) ==
  [i \in DOMAIN vs |-> IF vs[i].id = id THEN [vs[i] EXCEPT !.thumbnail = frame] ELSE vs[i]]

IdsWithStatus(vs, status) == { vs[i].id : i \in { j \in DOMAIN vs : vs[j].status = status } }

\* variant: the filter lets every file pass
videoFilterAll(files) == [i \in DOMAIN files |-> "video"]

\* the files of a submission that pass the filter, in order
RECURSIVE videoFilter(_)
videoFilter(files) ==
  IF files = <<>> THEN <<>>
  ELSE (IF Head(files) = "video" THEN <<"video">> ELSE <<>>) \o videoFilter(Tail(files))

\* the submissions: sequences of file types of length 0..MaxFiles
FileLists == UNION { [1..n -> FileTypes] : n \in 0..MaxFiles }

\* computed signals
canPause == isProcessing /\ ~isPaused
canResume == isProcessing /\ isPaused
canStop == isProcessing
canClear == Len(videos) > 0 /\ ~isProcessing
canRetry == (\E i \in DOMAIN videos : videos[i].status = "failed") /\ ~isProcessing

\* the progress shown to the user, Math.round(current / total * 100)
progress ==
  IF Len(videos) = 0 THEN 0
  ELSE (200 * currentIndex + Len(videos)) \div (2 * Len(videos))

\* synchronous code of processQueue is running: no other task can run
Busy == \E p \in Procs : procs[p].pc = "while"
Active(p) == procs[p].pc # "idle"
FreeSlots == { p \in Procs : ~Active(p) }

\* a write to a set of signals schedules the effect when it read one of them
Notified(changed) == effectDirty \/ (changed \cap deps # {})

Changed(name, old, new) == IF old = new THEN {} ELSE {name}

\* ------------------------------------------------------------------ Init
\* the component after construction
Constructed ==
  /\ videos = <<>>
  /\ isProcessing = FALSE
  /\ isPaused = FALSE
  /\ currentIndex = 0
  /\ apiKeyMissing \in BOOLEAN
  /\ processQueueRunning = FALSE
  /\ procs = [p \in Procs |-> [pc |-> "idle", video |-> 0]]
  /\ effectDirty = TRUE
  /\ deps = {}
  /\ inEffect = 0
  /\ thumbs = {}
  /\ nextId = 0
  /\ lastRequest = "none"
  /\ owed = {}
  /\ kept = {}
  /\ late = {}

Init == Constructed /\ extractor = NotCalled

\* the signals an action wrote with a new value (videos.update always makes a new array)
Writes(videosWritten) ==
  (IF videosWritten THEN {"videos"} ELSE {})
    \cup Changed("isProcessing", isProcessing, isProcessing')
    \cup Changed("isPaused", isPaused, isPaused')
    \cup Changed("currentIndex", currentIndex, currentIndex')

\* --------------------------------------------------------- user requests
\* variant: startProcessing() without the configuration gate
startProcessingUngated == isProcessing' = TRUE /\ isPaused' = FALSE

\* startProcessing(): what it does to isProcessing and isPaused
startProcessing ==
  IF apiKeyMissing
  THEN UNCHANGED <<isProcessing, isPaused>>
  ELSE isProcessing' = TRUE /\ isPaused' = FALSE

StartRequest ==
  /\ ~Busy
  /\ startProcessing
  /\ UNCHANGED <<videos, currentIndex, apiKeyMissing, processQueueRunning, procs,
                 deps, inEffect, thumbs, nextId>>
  /\ lastRequest' = "start"
  /\ UNCHANGED <<owed, kept, late>>
  /\ effectDirty' = Notified(Writes(FALSE))
  /\ UNCHANGED extractor

onFileSelected(files) ==
  LET k == Len(videoFilter(files))
      newVideos == [i \in 1..k |-> NewVideo(nextId + i)]
  IN /\ ~Busy
     /\ nextId + k <= MaxItems
     /\ videos' = videos \o newVideos
     /\ thumbs' = thumbs \cup { newVideos[i].id : i \in 1..k }
     /\ nextId' = nextId + k
     /\ IF ~isProcessing THEN startProcessing ELSE UNCHANGED <<isProcessing, isPaused>>
     /\ UNCHANGED <<currentIndex, apiKeyMissing, processQueueRunning, procs, deps, inEffect>>
     /\ lastRequest' = "submit"
     /\ late' = IF processQueueRunning THEN late \cup { newVideos[i].id : i \in 1..k } ELSE late
     /\ UNCHANGED <<owed, kept>>
     /\ effectDirty' = Notified(Writes(TRUE))
     /\ UNCHANGED extractor

\* variant: pause toggles isPaused
pauseProcessingToggles ==
  /\ ~Busy
  /\ isPaused' = ~isPaused
  /\ UNCHANGED <<isProcessing, currentIndex>>
  /\ UNCHANGED <<videos, apiKeyMissing, processQueueRunning, procs, deps, inEffect,
                 thumbs, nextId>>
  /\ lastRequest' = "pause"
  /\ owed' = {}
  /\ UNCHANGED <<kept, late>>
  /\ effectDirty' = Notified(Writes(FALSE))
  /\ UNCHANGED extractor

pauseProcessing ==
  /\ ~Busy
  /\ isPaused' = TRUE
  /\ UNCHANGED <<isProcessing, currentIndex>>
  /\ UNCHANGED <<videos, apiKeyMissing, processQueueRunning, procs, deps, inEffect,
                 thumbs, nextId>>
  /\ lastRequest' = "pause"
  /\ owed' = {}
  /\ UNCHANGED <<kept, late>>
  /\ effectDirty' = Notified(Writes(FALSE))
  /\ UNCHANGED extractor

resumeProcessing ==
  /\ ~Busy
  /\ isPaused' = FALSE
  /\ UNCHANGED <<isProcessing, currentIndex>>
  /\ UNCHANGED <<videos, apiKeyMissing, processQueueRunning, procs, deps, inEffect,
                 thumbs, nextId>>
  /\ lastRequest' = "resume"
  /\ UNCHANGED <<owed, kept, late>>
  /\ effectDirty' = Notified(Writes(FALSE))
  /\ UNCHANGED extractor

\* variant: stop only moves the cursor to the end of the queue
stopProcessingCursorOnly ==
  /\ ~Busy
  /\ currentIndex' = Len(videos)
  /\ UNCHANGED <<isProcessing, isPaused>>
  /\ UNCHANGED <<videos, apiKeyMissing, processQueueRunning, procs, deps, inEffect,
                 thumbs, nextId>>
  /\ lastRequest' = "stop"
  /\ owed' = {}
  /\ UNCHANGED kept
  /\ late' = {}
  /\ effectDirty' = Notified(Writes(FALSE))
  /\ UNCHANGED extractor

stopProcessing ==
  /\ ~Busy
  /\ isProcessing' = FALSE
  /\ isPaused' = FALSE
  /\ currentIndex' = Len(videos)
  /\ UNCHANGED <<videos, apiKeyMissing, processQueueRunning, procs, deps, inEffect,
                 thumbs, nextId>>
  /\ lastRequest' = "stop"
  /\ owed' = {}
  /\ UNCHANGED kept
  /\ late' = {}
  /\ effectDirty' = Notified(Writes(FALSE))
  /\ UNCHANGED extractor

retryFailed ==
  /\ ~Busy
  /\ currentIndex' = 0
  /\ startProcessing
  /\ UNCHANGED <<videos, apiKeyMissing, processQueueRunning, procs, deps, inEffect,
                 thumbs, nextId>>
  /\ lastRequest' = "retry"
  /\ owed' = IF apiKeyMissing THEN {} ELSE IdsWithStatus(videos, "failed")
  /\ kept' = IdsWithStatus(videos, "completed")
  /\ UNCHANGED late
  /\ effectDirty' = Notified(Writes(FALSE))
  /\ UNCHANGED extractor

clearAll ==
  /\ ~Busy
  /\ videos' = <<>>
  /\ currentIndex' = 0
  /\ isProcessing' = FALSE
  /\ isPaused' = FALSE
  /\ UNCHANGED <<apiKeyMissing, processQueueRunning, procs, deps, inEffect, thumbs, nextId>>
  /\ lastRequest' = "clear"
  /\ owed' = {}
  /\ kept' = {}
  /\ late' = {}
  /\ effectDirty' = Notified(Writes(TRUE))
  /\ UNCHANGED extractor

\* ------------------------------------------------------------ thumbnails
\* generateThumbnail(video): extractSingleFrame resolved
generateThumbnailDone(id) ==
  /\ ~Busy
  /\ id \in thumbs
  /\ videos' = setThumbnail(videos, id, "frame")
  /\ thumbs' = thumbs \ {id}
  /\ effectDirty' = Notified({"videos"})
  /\ UNCHANGED <<isProcessing, isPaused, currentIndex, apiKeyMissing,
                 processQueueRunning, procs, deps, inEffect, nextId>>
  /\ UNCHANGED <<lastRequest, owed, kept, late>>
  /\ UNCHANGED extractor

\* generateThumbnail(video): extractSingleFrame rejected, the error is logged
generateThumbnailFailed(id) ==
  /\ ~Busy
  /\ id \in thumbs
  /\ thumbs' = thumbs \ {id}
  /\ UNCHANGED <<videos, isProcessing, isPaused, currentIndex, apiKeyMissing,
                 processQueueRunning, procs, effectDirty, deps, inEffect, nextId>>
  /\ UNCHANGED <<lastRequest, owed, kept, late>>
  /\ UNCHANGED extractor

\* ------------------------------------------------- the reactive trigger
\* variant: the condition of the effect without the reentrancy flag
effectGuardNoFlag == isProcessing /\ ~isPaused

\* the condition of the effect
effectGuard == isProcessing /\ ~isPaused /\ ~processQueueRunning

\* the signals the effect's condition reads (&& short-circuits)
effectReads == {"isProcessing"} \cup (IF isProcessing THEN {"isPaused"} ELSE {})

\* one run of the effect; processQueue() is entered synchronously, inside the
\* effect's reactive context, and sets the reentrancy flag first
effect ==
  /\ ~Busy
  /\ effectDirty
  /\ effectDirty' = FALSE
  /\ deps' = effectReads
  /\ IF effectGuard
     THEN /\ FreeSlots # {}
          /\ LET p == CHOOSE q \in FreeSlots : \A r \in FreeSlots : q <= r
             IN /\ procs' = [procs EXCEPT ![p] = [pc |-> "while", video |-> 0]]
                /\ inEffect' = p
          /\ processQueueRunning' = TRUE
     ELSE UNCHANGED <<procs, inEffect, processQueueRunning>>
  /\ UNCHANGED <<videos, isProcessing, isPaused, currentIndex, apiKeyMissing, thumbs, nextId>>
  /\ UNCHANGED <<lastRequest, owed, kept, late>>
  /\ UNCHANGED extractor

\* ---------------------------------------------------------- processQueue
\* variant: the loop does not test isPaused
loopConditionIgnoresPause == currentIndex < Len(videos) /\ isProcessing

\* the condition of the while loop
loopCondition == currentIndex < Len(videos) /\ isProcessing /\ ~isPaused

\* the signals one evaluation of the loop condition and of the exit test reads
loopReads ==
  {"currentIndex", "videos"}
    \cup (IF currentIndex < Len(videos) THEN {"isProcessing"} ELSE {})
    \cup (IF currentIndex < Len(videos) /\ isProcessing THEN {"isPaused"} ELSE {})

\* variant: the exit test with > for >=
queueDrainedStrict == currentIndex > Len(videos)

\* the test after the loop: the cursor has reached the end of the queue
queueDrained == currentIndex >= Len(videos)

\* variant: every item that is not being processed is eligible
eligibleAlsoCompleted(video) == video.status # "processing"

eligible(video) == video.status = "pending" \/ video.status = "failed"

\* the effect's dependencies while slot p runs: reads made inside the effect count
depsDuring(p) == IF inEffect = p THEN deps \cup loopReads ELSE deps

\* the synchronous code from the loop head to the next await, or to the return
processQueueLoop(p) ==
  /\ procs[p].pc = "while"
  /\ deps' = depsDuring(p)
  /\ IF loopCondition
     THEN LET video == videos[currentIndex + 1]
          IN IF eligible(video)
             THEN /\ videos' = updateVideoStatus(videos, video.id, "processing")
                  /\ procs' = [procs EXCEPT ![p] = [pc |-> "extract", video |-> video.id]]
                  /\ inEffect' = IF inEffect = p THEN 0 ELSE inEffect
                  /\ effectDirty' = (effectDirty \/ "videos" \in depsDuring(p))
                  /\ owed' = owed \ {video.id}
                  /\ late' = late \ {video.id}
                  /\ UNCHANGED <<currentIndex, isProcessing, processQueueRunning>>
             ELSE /\ currentIndex' = currentIndex + 1
                  /\ effectDirty' = (effectDirty \/ "currentIndex" \in depsDuring(p))
                  /\ late' = late \ {video.id}
                  /\ UNCHANGED <<videos, procs, inEffect, isProcessing, processQueueRunning, owed>>
     ELSE /\ isProcessing' = IF queueDrained THEN FALSE ELSE isProcessing
          /\ processQueueRunning' = FALSE
          /\ procs' = [procs EXCEPT ![p] = [pc |-> "idle", video |-> 0]]
          /\ inEffect' = IF inEffect = p THEN 0 ELSE inEffect
          /\ effectDirty' = (effectDirty \/
                               (isProcessing' # isProcessing /\ "isProcessing" \in depsDuring(p)))
          /\ UNCHANGED <<videos, currentIndex, owed, late>>
  /\ UNCHANGED <<isPaused, apiKeyMissing, thumbs, nextId, lastRequest, kept>>
  /\ UNCHANGED extractor

\* the end of the per-item step: the result is written and the cursor advances
stepDone(p, status, title, keywords, error) ==
  /\ videos' = updateVideoResult(videos, procs[p].video, status, title, keywords, error)
  /\ currentIndex' = currentIndex + 1
  /\ procs' = [procs EXCEPT ![p].pc = "while"]
  /\ effectDirty' = Notified({"videos", "currentIndex"})
  /\ UNCHANGED <<isProcessing, isPaused, apiKeyMissing, processQueueRunning, deps,
                 inEffect, thumbs, nextId>>
  /\ UNCHANGED <<lastRequest, owed, kept, late>>
  /\ UNCHANGED extractor

\* await extractFrames(video.file, 8) resolved
extractFramesResolved(p) ==
  /\ ~Busy
  /\ procs[p].pc = "extract"
  /\ procs' = [procs EXCEPT ![p].pc = "infer"]
  /\ UNCHANGED <<videos, isProcessing, isPaused, currentIndex, apiKeyMissing,
                 processQueueRunning, effectDirty, deps, inEffect, thumbs, nextId>>
  /\ UNCHANGED <<lastRequest, owed, kept, late>>
  /\ UNCHANGED extractor

\* variant: the rejection is not caught and ends processQueue
extractFramesRejectedUncaught(p, message) ==
  /\ ~Busy
  /\ procs[p].pc = "extract"
  /\ procs' = [procs EXCEPT ![p] = [pc |-> "idle", video |-> 0]]
  /\ UNCHANGED <<videos, isProcessing, isPaused, currentIndex, apiKeyMissing,
                 processQueueRunning, effectDirty, deps, inEffect, thumbs, nextId,
                 lastRequest, owed, kept, late>>
  /\ UNCHANGED extractor

\* await extractFrames(video.file, 8) rejected
extractFramesRejected(p, message) ==
  /\ ~Busy
  /\ procs[p].pc = "extract"
  /\ stepDone(p, "failed", "", <<>>, message)

\* await generateMetadataFromFrames(frames) resolved
generateMetadataResolved(p, metadata) ==
  /\ ~Busy
  /\ procs[p].pc = "infer"
  /\ stepDone(p, "completed", metadata.title, metadata.keywords, NULL)

\* await generateMetadataFromFrames(frames) rejected
generateMetadataRejected(p, message) ==
  /\ ~Busy
  /\ procs[p].pc = "infer"
  /\ stepDone(p, "failed", "", <<>>, message)

\* ---------------------------------------------------------- extractFrames
\* video.currentTime = interval * i: the element is asked to seek, the request
\* is recorded in seeks
seekRequested(ex, i) ==
  LET t == seekTime(ex.duration, ex.frameCount, i)
  IN [ex EXCEPT !.i = i, !.seeks = Append(@, t), !.seeking = Append(@, t),
                !.pc = "seeking"]

\* the executor of the promise: elements are created, the handlers are set
extractFrames ==
  /\ extractor.pc = "called"
  /\ extractor' =
       IF extractor.context
       THEN [extractor EXCEPT !.pc = "loading"]
       ELSE [extractor EXCEPT !.pc = "rejected",
                              !.error = "Canvas context not available"]
  /\ UNCHANGED component

\* video.onloadedmetadata up to the first await of its loop
onloadedmetadata ==
  /\ extractor.pc = "loading"
  /\ extractor' =
       IF 1 <= extractor.frameCount
       THEN seekRequested(extractor, 1)
       ELSE [extractor EXCEPT !.pc = "resolved", !.result = extractor.frames]
  /\ UNCHANGED component

\* the element has reached the time it was asked for and fires seeked
seekCompleted ==
  /\ extractor.pc = "seeking"
  /\ extractor.seeking # <<>>
  /\ extractor' = [extractor EXCEPT !.position = Head(extractor.seeking),
                                    !.seeking = Tail(@), !.pc = "seeked"]
  /\ UNCHANGED component

\* video.onseeked resolves the awaited promise: the frame is drawn and pushed,
\* then the loop asks for the next seek or the frames are returned
onseeked ==
  /\ extractor.pc = "seeked"
  /\ LET captured == [extractor EXCEPT !.frames = Append(@, Frame(extractor.position))]
     IN extractor' =
          IF extractor.i + 1 <= extractor.frameCount
          THEN seekRequested(captured, extractor.i + 1)
          ELSE [captured EXCEPT !.pc = "resolved", !.result = captured.frames]
  /\ UNCHANGED component

\* video.onerror: the file cannot be loaded or decoded
onerror ==
  /\ extractor.pc \in {"loading", "seeking"}
  /\ extractor' = [extractor EXCEPT !.pc = "rejected",
                                    !.error = "Failed to load video file."]
  /\ UNCHANGED component

\* ------------------------------------------------------- specifications
Async ==
  \/ effect
  \/ \E p \in Procs : processQueueLoop(p)
  \/ \E p \in Procs : extractFramesResolved(p)
  \/ \E p \in Procs, m \in ExtractErrors : extractFramesRejected(p, m)
  \/ \E p \in Procs, m \in Metadata : generateMetadataResolved(p, m)
  \/ \E p \in Procs, m \in InferErrors : generateMetadataRejected(p, m)
  \/ \E id \in Ids : generateThumbnailDone(id)
  \/ \E id \in Ids : generateThumbnailFailed(id)

\* the public methods called in any order
Next ==
  \/ \E files \in FileLists : onFileSelected(files)
  \/ StartRequest
  \/ pauseProcessing
  \/ resumeProcessing
  \/ stopProcessing
  \/ retryFailed
  \/ clearAll
  \/ Async

Spec == Init /\ [][Next]_vars

\* the public methods called only while the corresponding can... signal is true
NextUI ==
  \/ \E files \in FileLists : onFileSelected(files)
  \/ StartRequest
  \/ canPause /\ pauseProcessing
  \/ canResume /\ resumeProcessing
  \/ canStop /\ stopProcessing
  \/ canRetry /\ retryFailed
  \/ canClear /\ clearAll
  \/ Async

SpecUI == Init /\ [][NextUI]_vars

\* the queue is only submitted to and started, and every extraction and inference
\* succeeds; scheduled callbacks run and awaited promises settle
NextDrain ==
  \/ \E files \in FileLists : onFileSelected(files)
  \/ StartRequest
  \/ effect
  \/ \E p \in Procs : processQueueLoop(p)
  \/ \E p \in Procs : extractFramesResolved(p)
  \/ \E p \in Procs, m \in Metadata : generateMetadataResolved(p, m)
  \/ \E id \in Ids : generateThumbnailDone(id)
  \/ \E id \in Ids : generateThumbnailFailed(id)

SpecDrain ==
  /\ Init
  /\ [][NextDrain]_vars
  /\ WF_vars(effect)
  /\ WF_vars(\E p \in Procs : processQueueLoop(p))
  /\ WF_vars(\E p \in Procs : extractFramesResolved(p))
  /\ WF_vars(\E p \in Procs, m \in Metadata : generateMetadataResolved(p, m))

\* the controller alone: every generateThumbnail stays in flight
NextControl ==
  \/ \E files \in FileLists : onFileSelected(files)
  \/ StartRequest
  \/ pauseProcessing
  \/ resumeProcessing
  \/ stopProcessing
  \/ retryFailed
  \/ clearAll
  \/ effect
  \/ \E p \in Procs : processQueueLoop(p)
  \/ \E p \in Procs : extractFramesResolved(p)
  \/ \E p \in Procs, m \in ExtractErrors : extractFramesRejected(p, m)
  \/ \E p \in Procs, m \in Metadata : generateMetadataResolved(p, m)
  \/ \E p \in Procs, m \in InferErrors : generateMetadataRejected(p, m)

SpecControl == Init /\ [][NextControl]_vars

\* one call of extractFrames on a file of any duration, with or without a
\* canvas context; the component is not used
InitExtract ==
  /\ Constructed
  /\ ~apiKeyMissing
  /\ \E frameCount \in 0..MaxFrames, duration \in 0..MaxDuration, context \in BOOLEAN :
       extractor = Extraction("called", frameCount, duration, context)

NextExtract ==
  \/ extractFrames
  \/ onloadedmetadata
  \/ seekCompleted
  \/ onseeked
  \/ onerror

SpecExtract == InitExtract /\ [][NextExtract]_vars

TypeOK ==
  /\ isProcessing \in BOOLEAN /\ isPaused \in BOOLEAN
  /\ currentIndex \in Nat
  /\ Len(videos) <= MaxItems
  /\ \A i \in DOMAIN videos :
       videos[i].status \in {"pending", "processing", "completed", "failed"}

\* ================================================================ claims
StatusIndices(status) == { i \in DOMAIN videos : videos[i].status = status }
ActiveProcs == { p \in Procs : Active(p) }
InFlight(p) == procs[p].pc \in {"extract", "infer"}
Item(vs, id) == vs[CHOOSE i \in DOMAIN vs : vs[i].id = id]
Has(vs, id) == \E i \in DOMAIN vs : vs[i].id = id

\* C1: in every reachable state at most one item of the queue has status
\* 'processing'
C1_AtMostOneProcessing == Cardinality(StatusIndices("processing")) <= 1

\* an item is processing while another, eligible one waits behind it and a
\* thumbnail is still being generated
C1_Witness ==
  /\ Len(videos) = 2
  /\ videos[1].status = "processing"
  /\ videos[2].status = "pending"
  /\ thumbs # {}
  /\ isProcessing /\ ~isPaused

\* C2: at most one execution of processQueue is active at any time, and the
\* reentrancy flag is set whenever one is
C2_SingleTraversal ==
  /\ Cardinality(ActiveProcs) <= 1
  /\ (ActiveProcs # {}) => processQueueRunning

\* the effect has run while a per-item step was in flight, after a retry had
\* made the controller Running again, and has not started a second traversal
C2_Witness ==
  /\ \E p \in Procs : InFlight(p)
  /\ lastRequest \in {"retry", "start", "resume"}
  /\ isProcessing /\ ~isPaused
  /\ ~effectDirty
  /\ deps = {"isProcessing", "isPaused"}

\* C3: when the inference client is not configured nothing is ever started: a
\* start request changes no signal, isProcessing is false, every item is
\* pending and no execution of processQueue exists
C3_StartRejected ==
  /\ [](apiKeyMissing =>
          /\ ~isProcessing
          /\ \A i \in DOMAIN videos : videos[i].status = "pending"
          /\ ActiveProcs = {})
  /\ [][apiKeyMissing /\ StartRequest =>
          UNCHANGED <<videos, isProcessing, isPaused, currentIndex>>]_vars

\* a file was submitted and a start was requested with the client not configured
C3_Witness ==
  /\ apiKeyMissing
  /\ Len(videos) >= 1
  /\ lastRequest = "start"
  /\ ~effectDirty

\* C4: with the client configured, every step succeeding and no pause, stop, retry
\* or clear, a queue of K >= 1 items eventually drains: all items completed with
\* the returned title and keywords, cursor = K, isProcessing false
Drained ==
  /\ \A i \in DOMAIN videos :
       /\ videos[i].status = "completed"
       /\ [title |-> videos[i].title, keywords |-> videos[i].keywords] \in Metadata
  /\ currentIndex = Len(videos)
  /\ ~isProcessing

C4_EventuallyDrained == (~apiKeyMissing /\ Len(videos) >= 1) ~> Drained

\* two submitted items have been processed and the controller is Idle again
C4_Witness ==
  /\ ~apiKeyMissing
  /\ Len(videos) = 2
  /\ Drained
  /\ ~processQueueRunning

\* C5: when the step of the visited item ends in a failure, the item (if it is still
\* in the queue) becomes failed with an error message, title "" and keywords [], the
\* cursor advances by exactly one and the same execution of processQueue is back at
\* the loop head, where an eligible next item is taken up
StepEnds(p) == InFlight(p) /\ procs'[p].pc \notin {"extract", "infer"}
ExtractionFails(p) == procs[p].pc = "extract" /\ procs'[p].pc \notin {"extract", "infer"}
FailedRecord(v) ==
  v.status = "failed" /\ v.errorMessage # NULL /\ v.title = "" /\ v.keywords = <<>>

C6_CompletedUntouched ==
  [][\A i \in DOMAIN videos :
       (videos[i].status = "completed" /\ Has(videos', videos[i].id)) =>
         /\ Item(videos', videos[i].id).status = "completed"
         /\ Item(videos', videos[i].id).title = videos[i].title
         /\ Item(videos', videos[i].id).keywords = videos[i].keywords
         /\ Item(videos', videos[i].id).errorMessage = videos[i].errorMessage
         /\ \A p \in Procs :
              (InFlight(p)' /\ procs'[p].video = videos[i].id) => procs'[p] = procs[p]
    ]_vars

\* the retry pass has passed the item that was completed at the retry request and
\* is re-attempting the one that was failed
C6_Witness ==
  /\ lastRequest = "retry"
  /\ Len(videos) = 2
  /\ videos[1].id \in kept /\ videos[1].status = "completed"
  /\ videos[2].status = "processing" /\ videos[2].id \notin owed
  /\ currentIndex = 1

\* the controller is Idle and no execution of processQueue is left
Idle == ~isProcessing /\ ~processQueueRunning

\* C7: whenever the controller is back in Idle after a retry request (client
\* configured, no later pause, stop or clear), every item that was failed at the
\* request has been set to 'processing' again
C7_RetryReattemptsFailed == Idle => owed = {}

\* C8: whenever the controller is back in Idle, no item that was submitted while an
\* execution of processQueue was active (and not abandoned by a later stop or clear)
\* is still pending
C8_LateItemsProcessed == Idle => late \cap IdsWithStatus(videos, "pending") = {}

\* the items of the next state that are 'processing' were 'processing' before
NoNewProcessing ==
  \A i \in DOMAIN videos' :
    videos'[i].status = "processing" =>
      Has(videos, videos'[i].id) /\ Item(videos, videos'[i].id).status = "processing"

\* the step of slot p ends and its item, if still in the queue, gets its result
StepCompletes(p) ==
  StepEnds(p) =>
    /\ currentIndex' = currentIndex + 1
    /\ Has(videos, procs[p].video) =>
         Item(videos', procs[p].video).status \in {"completed", "failed"}

\* C9: a pause request leaves the in-flight step alone; while isPaused stays true the
\* in-flight step still ends with the item completed or failed and the cursor
\* advanced by one, and no item becomes 'processing'
C9_PauseAtItemBoundary ==
  [][/\ pauseProcessing => UNCHANGED <<procs, videos, currentIndex, processQueueRunning>>
     /\ (isPaused /\ isPaused') =>
          /\ NoNewProcessing
          /\ \A p \in Procs : StepCompletes(p)
    ]_vars

\* pause was the last request; the first item has got its result and the cursor has
\* passed it, the second item is withheld and processQueue has returned
C9_Witness ==
  /\ lastRequest = "pause"
  /\ isProcessing /\ isPaused
  /\ Len(videos) = 2
  /\ videos[1].status \in {"completed", "failed"}
  /\ videos[2].status = "pending"
  /\ currentIndex = 1
  /\ ~processQueueRunning

\* C10: a stop request makes the controller Idle and leaves the in-flight step alone;
\* while isProcessing stays false the in-flight step still ends with the item
\* completed or failed, no item becomes 'processing' and pending items stay pending
C10_StopNonPreemptive ==
  [][/\ stopProcessing =>
          /\ ~isProcessing' /\ ~isPaused'
          /\ UNCHANGED <<procs, videos, processQueueRunning>>
     /\ (~isProcessing /\ ~isProcessing') =>
          /\ NoNewProcessing
          /\ \A p \in Procs : StepCompletes(p)
          /\ \A i \in DOMAIN videos :
               (videos[i].status = "pending" /\ Has(videos', videos[i].id)) =>
                 Item(videos', videos[i].id).status = "pending"
    ]_vars

\* stop was the last request, issued while the first item was in flight; that item
\* has got its result, the second was never visited and processQueue has returned
C10_Witness ==
  /\ lastRequest = "stop"
  /\ Idle /\ ~isPaused
  /\ Len(videos) = 2
  /\ videos[1].status \in {"completed", "failed"}
  /\ videos[2].status = "pending"
  /\ currentIndex = Len(videos) + 1

\* the four signals the requests write
Signals == <<videos, currentIndex, isProcessing, isPaused>>

\* the states a stop request, and a pause request, leaves behind
AfterStop == ~isProcessing /\ ~isPaused /\ currentIndex = Len(videos)
AfterPause == isPaused

\* C11: stop and pause are idempotent: a stop request leaves a state in which a second
\* stop request changes neither the queue, the cursor, isProcessing nor isPaused, and
\* likewise for pause
C11_StopPauseIdempotent ==
  [][/\ stopProcessing => AfterStop'
     /\ (AfterStop /\ stopProcessing) => UNCHANGED Signals
     /\ pauseProcessing => AfterPause'
     /\ (AfterPause /\ pauseProcessing) => UNCHANGED Signals
    ]_vars

\* a stop request was made while a step was in flight; a second one changes nothing
C11_Witness ==
  /\ lastRequest = "stop"
  /\ AfterStop
  /\ Len(videos) >= 1
  /\ \E p \in Procs : InFlight(p)

\* the number of files of a submission whose media type is video
VideoCount(files) == Cardinality({ i \in DOMAIN files : files[i] = "video" })

\* C12: a submission appends one new pending item (empty title and keywords, null
\* errorMessage and thumbnail, a fresh id) per video file, in order, after the
\* existing items, which stay as they are; the other files add nothing
C12_SubmissionAppends ==
  [][(lastRequest' = "submit" /\ thumbs \subseteq thumbs'
        /\ UNCHANGED <<procs, currentIndex, processQueueRunning, deps>>) =>
     \A files \in FileLists :
       onFileSelected(files) =>
         /\ Len(videos') = Len(videos) + VideoCount(files)
         /\ SubSeq(videos', 1, Len(videos)) = videos
         /\ \A i \in (Len(videos) + 1)..Len(videos') :
              /\ videos'[i] = NewVideo(videos'[i].id)
              /\ ~Has(videos, videos'[i].id)
              /\ \A j \in (Len(videos) + 1)..Len(videos') :
                   i < j => videos'[i].id < videos'[j].id
    ]_vars

\* an item was appended behind an item that has been processed
C12_Witness ==
  /\ lastRequest = "submit"
  /\ Len(videos) = 2
  /\ videos[1].status = "completed"
  /\ videos[2] = NewVideo(videos[2].id)
  /\ videos[2].id \in thumbs


\* the controller's part of the state: cursor, flags and traversals
Controller == <<currentIndex, isProcessing, isPaused, processQueueRunning, procs>>

\* C14: a thumbnail generation that completes changes only the thumbnail of
\* its target item, whatever the controller has done to the item in between,
\* and leaves the cursor, the flags and the traversals alone; one that fails
\* changes neither the queue nor the controller
C14_ThumbnailIndependent ==
  [][(thumbs' # thumbs /\ thumbs' \subseteq thumbs) =>
     \A id \in thumbs \ thumbs' :
       /\ generateThumbnailDone(id) =>
            /\ UNCHANGED Controller
            /\ Len(videos') = Len(videos)
            /\ \A i \in DOMAIN videos :
                 /\ videos'[i] = [videos[i] EXCEPT !.thumbnail = videos'[i].thumbnail]
                 /\ videos[i].id # id => videos'[i] = videos[i]
       /\ generateThumbnailFailed(id) => UNCHANGED <<videos, Controller>>
    ]_vars

\* a thumbnail has arrived on an item the controller is processing, and the
\* thumbnail generation of an item already completed has failed
C14_Witness ==
  /\ \E i \in DOMAIN videos :
       videos[i].status = "processing" /\ videos[i].thumbnail = "frame"
  /\ \E i \in DOMAIN videos :
       /\ videos[i].status = "completed" /\ videos[i].thumbnail = NULL
       /\ videos[i].id \notin thumbs


\* the status changes of the per-item step
StatusEdges ==
  { <<"pending", "processing">>, <<"failed", "processing">>,
    <<"processing", "completed">>, <<"processing", "failed">> }

\* C15: whenever an item that stays in the queue changes its status, the
\* change is one of pending -> processing, failed -> processing,
\* processing -> completed, processing -> failed
C15_StatusEdges ==
  [][videos' # videos =>
     \A i \in DOMAIN videos, j \in DOMAIN videos' :
       (videos[i].id = videos'[j].id /\ videos[i].status # videos'[j].status) =>
         <<videos[i].status, videos'[j].status>> \in StatusEdges
    ]_vars

\* after a retry an item completed earlier is still completed, the other item
\* of the queue is being processed again and a result has been written
C15_Witness ==
  /\ lastRequest = "retry" /\ Len(videos) = 2 /\ owed = {}
  /\ videos[1].status = "completed" /\ videos[1].id \in kept
  /\ videos[2].status = "processing"
  /\ \E p \in Procs : InFlight(p) /\ procs[p].video = videos[2].id


\* C16: an item carries an error message only while it is 'failed', and a
\* non-empty title or keyword list only while it is 'completed'
C16_ResultFieldsMatchStatus ==
  \A i \in DOMAIN videos :
    /\ videos[i].errorMessage # NULL => videos[i].status = "failed"
    /\ (videos[i].title # "" \/ videos[i].keywords # <<>>) =>
         videos[i].status = "completed"

\* after a retry the first item is processed with its error message cleared
\* while the second, still waiting for its retry, carries its message
C16_Witness ==
  /\ lastRequest = "retry" /\ Len(videos) = 2 /\ currentIndex = 0
  /\ videos[1].status = "processing" /\ videos[1].errorMessage = NULL
  /\ videos[2].status = "failed" /\ videos[2].errorMessage # NULL
  /\ owed = {videos[2].id} /\ kept = {}


\* C17: in every reachable state isPaused implies isProcessing
C17_PausedOnlyWhileProcessing == isPaused => isProcessing


\* C18: from clearAll until the next request the queue is empty, the cursor is
\* 0 and isProcessing and isPaused are false, also when a step that was in
\* flight for a cleared item ends
C18_ClearStaysReset ==
  lastRequest = "clear" =>
    videos = <<>> /\ currentIndex = 0 /\ ~isProcessing /\ ~isPaused


\* C20: in every reachable state the cursor is between 0 and the length of
\* the queue, and the progress value is at most 100
C20_CursorInRange == currentIndex \in 0..Len(videos) /\ progress <= 100


\* the controller is Running with the cursor inside the queue
Running == isProcessing /\ ~isPaused /\ currentIndex < Len(videos)

\* a traversal is active, or the effect is scheduled and will start one
TraversalActiveOrScheduled == processQueueRunning \/ effectDirty

\* no item waits for a traversal that the retry request should have caused
RetryHonoured == owed = {} /\ IdsWithStatus(videos, "pending") = {}

\* C19: whenever the controller is Running with the cursor inside the queue a
\* traversal is active or the effect is scheduled to start one, and whenever the
\* controller is back in Idle after a retry (client configured, no later
\* request) every item that was eligible at the retry has been processed
C19_NoLostWakeup ==
  /\ Running => TraversalActiveOrScheduled
  /\ (Idle /\ lastRequest = "retry" /\ ~apiKeyMissing) => RetryHonoured


\* the media time D / (N + 1) * i
ExpectedTime(D, N, i) == Frac(D * i, N + 1)

\* C13: a call of extractFrames with count N on a file of duration D asks for
\* at most N seeks, the i-th at D / (N + 1) * i; a seek is asked for only when
\* the frame of every earlier seek has been captured, so at most one seek is
\* pending; the frames are those of the seeks, in their order; and when the
\* call resolves, N seeks have been made and the result is the N frames
C13_SeeksSerialized ==
  LET N == extractor.frameCount
      D == extractor.duration
      seeks == extractor.seeks
      frames == extractor.frames
  IN /\ Len(seeks) <= N
     /\ \A k \in DOMAIN seeks : seeks[k] = ExpectedTime(D, N, k)
     /\ Len(extractor.seeking) <= 1
     /\ Len(frames) <= Len(seeks) /\ Len(seeks) <= Len(frames) + 1
     /\ extractor.seeking # <<>> =>
          Len(seeks) = Len(frames) + 1 /\ extractor.seeking = <<seeks[Len(seeks)]>>
     /\ \A k \in DOMAIN frames : frames[k] = Frame(seeks[k])
     /\ extractor.pc = "resolved" =>
          Len(seeks) = N /\ Len(frames) = N /\ extractor.result = frames

\* a call with three frames on a file of duration 3 has resolved: the seeks were
\* at 3/4, 3/2 and 9/4
C13_Witness ==
  /\ extractor.pc = "resolved"
  /\ extractor.frameCount = 3 /\ extractor.duration = 3
  /\ extractor.seeks = << <<3, 4>>, <<3, 2>>, <<9, 4>> >>
  /\ Len(extractor.result) = 3

====
